---- MODULE Spec2Model ----
(***************************************************************************)
(* A model of the Twitter planning flow of OpenManus:                      *)
(*   - the Plan Store, src/app/tool/twitter_planning.py                    *)
(*     (TwitterPlanningTool: create, update, list, get, set_active,        *)
(*     mark_post, delete);                                                 *)
(*   - the Execution Loop, src/app/flow/twitter_planning_flow.py           *)
(*     (TwitterPlanningFlow.execute and its helpers).                      *)
(*                                                                         *)
(* Python values are modelled as follows.  An Optional[str] argument is a  *)
(* string, with None the absent value; "" is the empty string, which       *)
(* Python also treats as false.  A list index is the Python, 0-based,      *)
(* index: item i of a list is element i+1 of the sequence.  The posts      *)
(* argument is a tagged record, since it may be None, a list, or another   *)
(* (truthy) object that is not a list.                                     *)
(***************************************************************************)
EXTENDS Integers, Sequences, FiniteSets, TLC

(***************************************************************************)
(* Bounds of the model.                                                    *)
(***************************************************************************)
\* the longest list of posts a caller passes to create or update
MaxPosts == 2
\* the number of Plan Store commands in one behaviour of SpecStore
MaxOps == 3

(***************************************************************************)
(* Values.                                                                 *)
(***************************************************************************)
None == "None"

\* Python truthiness of an Optional[str]
Truthy(s) == s # None /\ s # ""

\* post_index is None
NoneIndex == 0 - 99

PlanIds == {"tp", "other"}
\* None and "" are both false in Python, and no command tells them apart:
\* the absent plan_id is None, the empty title is ""
PlanIdArgs == PlanIds \cup {None}
Titles == {"T1", "T2"}
TitleArgs == Titles \cup {""}
\* the titles create is given: the store copies a title and never reads it, so
\* a plan created under the second title behaves as one created under the
\* first; update is given both, so a title is still seen to change
CreateTitleArgs == {"T1", ""}

\* a post is a dict; two posts are equal iff all their entries are
PostValues ==
    { [content |-> "a", image_prompt |-> ""],
      [content |-> "b", image_prompt |-> "img"] }

SeqsUpTo(S, n) == UNION { [1..k -> S] : k \in 0..n }

PostsNone == [tag |-> "none", val |-> <<>>]
PostsNotAList == [tag |-> "other", val |-> <<>>]
PostsList(s) == [tag |-> "list", val |-> s]
PostsArgs ==
    {PostsNone, PostsNotAList} \cup { PostsList(s) : s \in SeqsUpTo(PostValues, MaxPosts) }

\* `not posts`: None and the empty list are false
PostsTruthy(posts) ==
    \/ posts.tag = "other"
    \/ posts.tag = "list" /\ Len(posts.val) > 0

PostStatus == {"draft", "ready", "posted", "failed"}
\* the post_status arguments the commands of SpecStore are given: absent, empty,
\* two of the four statuses, and a string that is no status
StatusArgs == {None, "", "draft", "posted", "bogus"}
NotesArgs == {None, "", "n1"}
IndexArgs == {NoneIndex} \cup ((0 - 1)..MaxPosts)

\* the ToolError raised, by the place that raises it; NoError: a ToolResult
NoError == "ok"

\* the arguments of a tool call that has none the planning tool reads
NoKwargs == [command |-> None, plan_id |-> None, title |-> "", posts |-> PostsNone]

\* the local variable response before llm.ask_tool has answered
NoResponse == [answer |-> "none", kwargs |-> NoKwargs]

VARIABLES
    plans,               \* TwitterPlanningTool.plans: plan_id -> plan
    current_plan_id,     \* TwitterPlanningTool._current_plan_id
    lastCommand,         \* the last command given to TwitterPlanningTool.execute
    lastError,           \* what that command raised, or NoError
    nops,                \* the number of commands given from outside the flow
    pc,                  \* where TwitterPlanningFlow.execute stands
    input_text,          \* the argument of execute
    primary_agent,       \* whether the flow has a primary agent
    current_post_index,  \* TwitterPlanningFlow.current_post_index
    result,              \* the local variable result of execute, as a list of parts
    returned,            \* the kind of string execute returned, None before it returns
    executed,            \* the post indices executor.run was called for, in order
    run_outcome,         \* how the last executor.run ended: "ok", "raised", None before
    executor_finished,   \* executor.state == AgentState.FINISHED after its last run
    agents,              \* the keys of TwitterPlanningFlow.agents, in insertion order
    executor_keys,       \* TwitterPlanningFlow.executor_keys
    post_type,           \* the local variable post_type of execute
    executor,            \* the local variable executor of execute
    response,            \* what llm.ask_tool answered in _create_initial_plan
    store_at_start,      \* the plans and the active pointer when execute was called
    other_run            \* the variables of a second run of execute that stands at an await

storeVars == <<plans, current_plan_id>>
toolVars == <<lastCommand, lastError, nops>>
flowVars == <<pc, input_text, primary_agent, current_post_index, result, returned,
              executed, run_outcome, executor_finished, post_type, executor,
              response>>
configVars == <<agents, executor_keys, store_at_start, other_run>>
vars == <<plans, current_plan_id, lastCommand, lastError, nops, pc, input_text,
          primary_agent, current_post_index, result, returned, executed,
          run_outcome, executor_finished, agents, executor_keys, post_type,
          executor, response, store_at_start, other_run>>

(***************************************************************************)
(* The executor registry of the flow and its selector.  agents is the list *)
(* of the registry's keys in insertion order; the agent registered under   *)
(* key k is written FromAgents(k), and self.primary_agent is written       *)
(* PrimaryAgent(primary), None when the flow has none.                     *)
(***************************************************************************)
Range(seq) == { seq[i] : i \in 1..Len(seq) }
FromAgents(key) == [from |-> "agents", key |-> key]
\* no agent: the value of self.primary_agent of a flow that has none, and of
\* the local variable executor before it is assigned
NoAgent == [from |-> "none", key |-> None]
PrimaryAgent(primary) == IF primary THEN [from |-> "primary_agent", key |-> None] ELSE NoAgent

\* __init__: executor_keys is the executors argument, or all the keys of
\* agents when that argument is empty or absent (the field then keeps its
\* default, the empty list)
init_executor_keys(agent_keys, executors) ==
    IF executors = <<>> THEN agent_keys ELSE executors

\* the loop of get_executor over executor_keys, from position i on
RECURSIVE FirstExecutorKey(_, _, _)
FirstExecutorKey(agent_keys, keys, i) ==
    IF i > Len(keys) THEN None
    ELSE IF keys[i] \in Range(agent_keys) THEN keys[i]
    ELSE FirstExecutorKey(agent_keys, keys, i + 1)

\* a selector that looks the post type up only after the executor keys
get_executor_keys_first(agent_keys, keys, primary, type) ==
    LET key == FirstExecutorKey(agent_keys, keys, 1)
    IN IF key # None THEN FromAgents(key)
       ELSE IF Truthy(type) /\ type \in Range(agent_keys) THEN FromAgents(type)
       ELSE PrimaryAgent(primary)

get_executor(agent_keys, keys, primary, type) ==
    IF Truthy(type) /\ type \in Range(agent_keys) THEN FromAgents(type)
    ELSE LET key == FirstExecutorKey(agent_keys, keys, 1)
         IN IF key # None THEN FromAgents(key) ELSE PrimaryAgent(primary)

\* the type _get_current_post_info gives a post
PostType(post) == IF Truthy(post.image_prompt) THEN "image" ELSE "text"

(***************************************************************************)
(* The Plan Store.  Each command is an operator from the store's state     *)
(* (plans, cur) and the command's arguments to the state after it and the  *)
(* error it raised.                                                        *)
(***************************************************************************)
Raise(P, cur, e) == [plans |-> P, cur |-> cur, err |-> e]
Return(P, cur) == [plans |-> P, cur |-> cur, err |-> NoError]

\* the dict with key k set to v
DictSet(P, k, v) == [x \in (DOMAIN P) \cup {k} |-> IF x = k THEN v ELSE P[x]]
\* del P[k]
DictDel(P, k) == [x \in (DOMAIN P) \ {k} |-> P[x]]

\* [v] * n
Repeat(v, n) == [i \in 1..n |-> v]

\* create without the check for an existing plan_id
create_plan_overwrites(P, cur, plan_id, title, posts) ==
    IF ~Truthy(plan_id) THEN Raise(P, cur, "MissingPlanId")
    ELSE IF ~Truthy(title) THEN Raise(P, cur, "MissingTitle")
    ELSE IF ~PostsTruthy(posts) \/ posts.tag # "list" THEN Raise(P, cur, "InvalidPosts")
    ELSE LET plan == [plan_id |-> plan_id,
                      title |-> title,
                      posts |-> posts.val,
                      post_statuses |-> Repeat("draft", Len(posts.val)),
                      post_notes |-> Repeat("", Len(posts.val))]
         IN Return(DictSet(P, plan_id, plan), plan_id)

\* create that tests only that posts is a list, not that it is non-empty
create_plan_accepts_empty_posts(P, cur, plan_id, title, posts) ==
    IF ~Truthy(plan_id) THEN Raise(P, cur, "MissingPlanId")
    ELSE IF plan_id \in DOMAIN P THEN Raise(P, cur, "AlreadyExists")
    ELSE IF ~Truthy(title) THEN Raise(P, cur, "MissingTitle")
    ELSE IF posts.tag # "list" THEN Raise(P, cur, "InvalidPosts")
    ELSE LET plan == [plan_id |-> plan_id,
                      title |-> title,
                      posts |-> posts.val,
                      post_statuses |-> Repeat("draft", Len(posts.val)),
                      post_notes |-> Repeat("", Len(posts.val))]
         IN Return(DictSet(P, plan_id, plan), plan_id)

create_plan(P, cur, plan_id, title, posts) ==
    IF ~Truthy(plan_id) THEN Raise(P, cur, "MissingPlanId")
    ELSE IF plan_id \in DOMAIN P THEN Raise(P, cur, "AlreadyExists")
    ELSE IF ~Truthy(title) THEN Raise(P, cur, "MissingTitle")
    ELSE IF ~PostsTruthy(posts) \/ posts.tag # "list" THEN Raise(P, cur, "InvalidPosts")
    ELSE LET plan == [plan_id |-> plan_id,
                      title |-> title,
                      posts |-> posts.val,
                      post_statuses |-> Repeat("draft", Len(posts.val)),
                      post_notes |-> Repeat("", Len(posts.val))]
         IN Return(DictSet(P, plan_id, plan), plan_id)

\* update that keeps an entry when the post is anywhere in the old list
MergedField_by_membership(plan, new_posts, what, default) ==
    [i \in 1..Len(new_posts) |->
        IF \E j \in 1..Len(plan.posts) : new_posts[i] = plan.posts[j]
        THEN plan[what][CHOOSE j \in 1..Len(plan.posts) : new_posts[i] = plan.posts[j]]
        ELSE default]

\* the statuses (what = "post_statuses") or notes (what = "post_notes") that
\* update computes for the new list of posts
MergedField(plan, new_posts, what, default) ==
    [i \in 1..Len(new_posts) |->
        IF i <= Len(plan.posts) /\ new_posts[i] = plan.posts[i]
        THEN plan[what][i]
        ELSE default]

\* update that replaces the posts and leaves the statuses and notes as they were
update_plan_keeps_statuses(P, cur, plan_id, title, posts) ==
    IF ~Truthy(plan_id) THEN Raise(P, cur, "MissingPlanId")
    ELSE IF plan_id \notin DOMAIN P THEN Raise(P, cur, "NotFound")
    ELSE LET plan == P[plan_id]
             retitled == IF Truthy(title) THEN [plan EXCEPT !.title = title] ELSE plan
         IN IF ~PostsTruthy(posts) THEN Return(DictSet(P, plan_id, retitled), cur)
            ELSE IF posts.tag # "list"
                 THEN Raise(DictSet(P, plan_id, retitled), cur, "InvalidPosts")
            ELSE Return(DictSet(P, plan_id, [retitled EXCEPT !.posts = posts.val]), cur)

update_plan(P, cur, plan_id, title, posts) ==
    IF ~Truthy(plan_id) THEN Raise(P, cur, "MissingPlanId")
    ELSE IF plan_id \notin DOMAIN P THEN Raise(P, cur, "NotFound")
    ELSE LET plan == P[plan_id]
             retitled == IF Truthy(title) THEN [plan EXCEPT !.title = title] ELSE plan
         IN IF ~PostsTruthy(posts) THEN Return(DictSet(P, plan_id, retitled), cur)
            ELSE IF posts.tag # "list"
                 \* the title is already written into the stored plan
                 THEN Raise(DictSet(P, plan_id, retitled), cur, "InvalidPosts")
            ELSE Return(DictSet(P, plan_id,
                     [retitled EXCEPT
                        !.posts = posts.val,
                        !.post_statuses = MergedField(plan, posts.val, "post_statuses", "draft"),
                        !.post_notes = MergedField(plan, posts.val, "post_notes", "")]),
                     cur)

list_plans(P, cur) == Return(P, cur)

\* the glyph of a status; a status that is none of the four gets the glyph of
\* draft ("[>]" stands for the arrow, "[v]" for the check mark)
StatusSymbol(status) ==
    CASE status = "draft" -> "[ ]"
      [] status = "ready" -> "[>]"
      [] status = "posted" -> "[v]"
      [] status = "failed" -> "[!]"
      [] OTHER -> "[ ]"

\* sum(1 for status in statuses if status == s)
CountStatus(statuses, s) == Cardinality({i \in DOMAIN statuses : statuses[i] = s})

\* (posted / total) * 100 with one decimal, in tenths of a percent, rounded
\* to the nearest tenth
PercentTenths(posted, total) == (2 * 1000 * posted + total) \div (2 * total)

Min3(a, b, c) ==
    IF a <= b /\ a <= c THEN a ELSE IF b <= c THEN b ELSE c

\* the lines of one post: the numbered line with glyph and content, then a
\* line for each of image_prompt and notes that is not empty (the posts of
\* the model have neither hashtags nor scheduled_time)
FormatPost(i, post, status, notes) ==
    <<[line |-> "post", index |-> i, symbol |-> StatusSymbol(status), text |-> post.content]>>
    \o (IF Truthy(post.image_prompt)
        THEN <<[line |-> "image_prompt", index |-> i, symbol |-> "", text |-> post.image_prompt]>>
        ELSE <<>>)
    \o (IF Truthy(notes)
        THEN <<[line |-> "notes", index |-> i, symbol |-> "", text |-> notes]>>
        ELSE <<>>)

\* the rendered text of a plan, part by part: header, its underline as long
\* as the header line with its newline, the progress line, the count line,
\* and the lines of the posts the zip of the three lists yields
format_plan(plan) ==
    LET total == Len(plan.posts)
        posted == CountStatus(plan.post_statuses, "posted")
        n == Min3(Len(plan.posts), Len(plan.post_statuses), Len(plan.post_notes))
    IN [title |-> plan.title,
        plan_id |-> plan.plan_id,
        underline |-> 22 + Len(plan.title) + Len(plan.plan_id),
        posted |-> posted,
        total |-> total,
        percent |-> IF total > 0 THEN PercentTenths(posted, total) ELSE 0,
        ready |-> CountStatus(plan.post_statuses, "ready"),
        failed |-> CountStatus(plan.post_statuses, "failed"),
        draft |-> CountStatus(plan.post_statuses, "draft"),
        posts |-> [i \in 1..n |->
                      FormatPost(i - 1, plan.posts[i], plan.post_statuses[i],
                                 plan.post_notes[i])]]

\* the text of a ToolError, by the place that raises it and the plan_id it
\* quotes
ErrorText(e, plan_id) == [error |-> e, plan_id |-> plan_id]

\* get that also makes the plan it returns the active one
get_plan_activates(P, cur, plan_id) ==
    IF ~Truthy(plan_id) /\ ~Truthy(cur) THEN Raise(P, cur, "NoActivePlan")
    ELSE LET id == IF Truthy(plan_id) THEN plan_id ELSE cur
         IN IF id \notin DOMAIN P THEN Raise(P, cur, "NotFound")
            ELSE Return(P, id)

get_plan(P, cur, plan_id) ==
    IF ~Truthy(plan_id) /\ ~Truthy(cur) THEN Raise(P, cur, "NoActivePlan")
    ELSE LET id == IF Truthy(plan_id) THEN plan_id ELSE cur
         IN IF id \notin DOMAIN P THEN Raise(P, cur, "NotFound")
            ELSE Return(P, cur)

\* what get gives its caller: the rendered plan, or the text of the error
get_plan_output(P, cur, plan_id) ==
    IF ~Truthy(plan_id) /\ ~Truthy(cur) THEN ErrorText("NoActivePlan", None)
    ELSE LET id == IF Truthy(plan_id) THEN plan_id ELSE cur
         IN IF id \notin DOMAIN P THEN ErrorText("NotFound", id)
            ELSE format_plan(P[id])

set_active_plan(P, cur, plan_id) ==
    IF ~Truthy(plan_id) THEN Raise(P, cur, "MissingPlanId")
    ELSE IF plan_id \notin DOMAIN P THEN Raise(P, cur, "NotFound")
    ELSE Return(P, plan_id)

\* mark_post without the test for a negative index: a negative index counts
\* from the end of the lists, as list indexing does
mark_post_negative_index(P, cur, plan_id, post_index, post_status, post_notes) ==
    IF ~Truthy(plan_id) /\ ~Truthy(cur) THEN Raise(P, cur, "NoActivePlan")
    ELSE LET id == IF Truthy(plan_id) THEN plan_id ELSE cur
         IN IF id \notin DOMAIN P THEN Raise(P, cur, "NotFound")
            ELSE IF post_index = NoneIndex THEN Raise(P, cur, "MissingIndex")
            ELSE IF post_index >= Len(P[id].posts) \/ post_index < 0 - Len(P[id].posts)
                 THEN Raise(P, cur, "IndexOutOfRange")
            ELSE IF Truthy(post_status) /\ post_status \notin PostStatus
                 THEN Raise(P, cur, "InvalidStatus")
            ELSE LET plan == P[id]
                     k == IF post_index < 0 THEN Len(plan.posts) + post_index + 1
                          ELSE post_index + 1
                     s1 == IF Truthy(post_status)
                           THEN [plan EXCEPT !.post_statuses[k] = post_status]
                           ELSE plan
                     s2 == IF Truthy(post_notes)
                           THEN [s1 EXCEPT !.post_notes[k] = post_notes]
                           ELSE s1
                 IN Return(DictSet(P, id, s2), cur)

\* mark_post that empties the notes of the post whenever it sets a status
\* and is given no notes
mark_post_status_resets_notes(P, cur, plan_id, post_index, post_status, post_notes) ==
    IF ~Truthy(plan_id) /\ ~Truthy(cur) THEN Raise(P, cur, "NoActivePlan")
    ELSE LET id == IF Truthy(plan_id) THEN plan_id ELSE cur
         IN IF id \notin DOMAIN P THEN Raise(P, cur, "NotFound")
            ELSE IF post_index = NoneIndex THEN Raise(P, cur, "MissingIndex")
            ELSE IF post_index < 0 \/ post_index >= Len(P[id].posts)
                 THEN Raise(P, cur, "IndexOutOfRange")
            ELSE IF Truthy(post_status) /\ post_status \notin PostStatus
                 THEN Raise(P, cur, "InvalidStatus")
            ELSE LET plan == P[id]
                     s1 == IF Truthy(post_status)
                           THEN [plan EXCEPT !.post_statuses[post_index + 1] = post_status,
                                             !.post_notes[post_index + 1] = ""]
                           ELSE plan
                     s2 == IF Truthy(post_notes)
                           THEN [s1 EXCEPT !.post_notes[post_index + 1] = post_notes]
                           ELSE s1
                 IN Return(DictSet(P, id, s2), cur)

\* mark_post without the test of the status against the four statuses
mark_post_any_status(P, cur, plan_id, post_index, post_status, post_notes) ==
    IF ~Truthy(plan_id) /\ ~Truthy(cur) THEN Raise(P, cur, "NoActivePlan")
    ELSE LET id == IF Truthy(plan_id) THEN plan_id ELSE cur
         IN IF id \notin DOMAIN P THEN Raise(P, cur, "NotFound")
            ELSE IF post_index = NoneIndex THEN Raise(P, cur, "MissingIndex")
            ELSE IF post_index < 0 \/ post_index >= Len(P[id].posts)
                 THEN Raise(P, cur, "IndexOutOfRange")
            ELSE LET plan == P[id]
                     s1 == IF Truthy(post_status)
                           THEN [plan EXCEPT !.post_statuses[post_index + 1] = post_status]
                           ELSE plan
                     s2 == IF Truthy(post_notes)
                           THEN [s1 EXCEPT !.post_notes[post_index + 1] = post_notes]
                           ELSE s1
                 IN Return(DictSet(P, id, s2), cur)

mark_post(P, cur, plan_id, post_index, post_status, post_notes) ==
    IF ~Truthy(plan_id) /\ ~Truthy(cur) THEN Raise(P, cur, "NoActivePlan")
    ELSE LET id == IF Truthy(plan_id) THEN plan_id ELSE cur
         IN IF id \notin DOMAIN P THEN Raise(P, cur, "NotFound")
            ELSE IF post_index = NoneIndex THEN Raise(P, cur, "MissingIndex")
            ELSE IF post_index < 0 \/ post_index >= Len(P[id].posts)
                 THEN Raise(P, cur, "IndexOutOfRange")
            ELSE IF Truthy(post_status) /\ post_status \notin PostStatus
                 THEN Raise(P, cur, "InvalidStatus")
            ELSE LET plan == P[id]
                     s1 == IF Truthy(post_status)
                           THEN [plan EXCEPT !.post_statuses[post_index + 1] = post_status]
                           ELSE plan
                     s2 == IF Truthy(post_notes)
                           THEN [s1 EXCEPT !.post_notes[post_index + 1] = post_notes]
                           ELSE s1
                 IN Return(DictSet(P, id, s2), cur)

\* delete that leaves the active pointer alone
delete_plan_keeps_pointer(P, cur, plan_id) ==
    IF ~Truthy(plan_id) THEN Raise(P, cur, "MissingPlanId")
    ELSE IF plan_id \notin DOMAIN P THEN Raise(P, cur, "NotFound")
    ELSE Return(DictDel(P, plan_id), cur)

\* delete that clears the active pointer whichever plan it deletes
delete_plan_always_clears(P, cur, plan_id) ==
    IF ~Truthy(plan_id) THEN Raise(P, cur, "MissingPlanId")
    ELSE IF plan_id \notin DOMAIN P THEN Raise(P, cur, "NotFound")
    ELSE Return(DictDel(P, plan_id), None)

delete_plan(P, cur, plan_id) ==
    IF ~Truthy(plan_id) THEN Raise(P, cur, "MissingPlanId")
    ELSE IF plan_id \notin DOMAIN P THEN Raise(P, cur, "NotFound")
    ELSE Return(DictDel(P, plan_id), IF cur = plan_id THEN None ELSE cur)

(***************************************************************************)
(* The Plan Store on its own: any sequence of at most MaxOps commands,     *)
(* with any arguments, on a store that starts empty.  The flow does not    *)
(* run.                                                                    *)
(***************************************************************************)
\* there is no second run
NoOtherRun == [run |-> 0]

\* execute has not been called
RunNotStarted ==
    /\ pc = "start"
    /\ current_post_index = NoneIndex
    /\ result = <<>>
    /\ returned = None
    /\ executed = <<>>
    /\ run_outcome = None
    /\ executor_finished = FALSE
    /\ post_type = None
    /\ executor = NoAgent
    /\ response = NoResponse

FlowNotStarted == RunNotStarted /\ other_run = NoOtherRun

InitStore ==
    /\ plans = [x \in {} |-> x]
    /\ current_plan_id = None
    /\ lastCommand = "none"
    /\ lastError = NoError
    /\ nops = 0
    /\ input_text = ""
    /\ primary_agent = TRUE
    /\ agents = <<"manus">>
    /\ executor_keys = init_executor_keys(agents, <<>>)
    /\ store_at_start = [plans |-> plans, cur |-> current_plan_id]
    /\ FlowNotStarted

\* TwitterPlanningTool.execute, called from outside the flow: the store after
\* the command, which stays changed as far as the command got when it raises
Execute(command, r) ==
    /\ plans' = r.plans
    /\ current_plan_id' = r.cur
    /\ lastCommand' = command
    /\ lastError' = r.err
    /\ nops' = nops + 1
    /\ UNCHANGED <<flowVars, configVars>>

CreateCommand ==
    \E plan_id \in PlanIdArgs, title \in CreateTitleArgs, posts \in PostsArgs :
        Execute("create", create_plan(plans, current_plan_id, plan_id, title, posts))

UpdateCommand ==
    \E plan_id \in PlanIdArgs, title \in TitleArgs, posts \in PostsArgs :
        Execute("update", update_plan(plans, current_plan_id, plan_id, title, posts))

ListCommand == Execute("list", list_plans(plans, current_plan_id))

GetCommand ==
    \E plan_id \in PlanIdArgs : Execute("get", get_plan(plans, current_plan_id, plan_id))

SetActiveCommand ==
    \E plan_id \in PlanIdArgs :
        Execute("set_active", set_active_plan(plans, current_plan_id, plan_id))

MarkPostCommand ==
    \E plan_id \in PlanIdArgs, post_index \in IndexArgs,
       post_status \in StatusArgs, post_notes \in NotesArgs :
        Execute("mark_post",
                mark_post(plans, current_plan_id, plan_id, post_index, post_status, post_notes))

DeleteCommand ==
    \E plan_id \in PlanIdArgs :
        Execute("delete", delete_plan(plans, current_plan_id, plan_id))

Create == nops < MaxOps /\ CreateCommand
Update == nops < MaxOps /\ UpdateCommand
List == nops < MaxOps /\ ListCommand
Get == nops < MaxOps /\ GetCommand
SetActive == nops < MaxOps /\ SetActiveCommand
MarkPost == nops < MaxOps /\ MarkPostCommand
Delete == nops < MaxOps /\ DeleteCommand

NextStore == Create \/ Update \/ List \/ Get \/ SetActive \/ MarkPost \/ Delete

SpecStore == InitStore /\ [][NextStore]_vars

(***************************************************************************)
(* The flow, TwitterPlanningFlow.  execute is a coroutine: it runs without *)
(* interruption from one await of a collaborator (the language model, the  *)
(* executor) to the next, so there is one action per stretch between two   *)
(* such awaits, and pc names the await the flow stands at:                 *)
(*   "start"      execute has not been called                              *)
(*   "ask_tool"   _create_initial_plan awaits llm.ask_tool                 *)
(*   "run"        _execute_post awaits executor.run                        *)
(*   "ask"        _finalize_plan awaits llm.ask                            *)
(*   "agent_run"  _finalize_plan awaits primary_agent.run                  *)
(*   "done"       execute has returned                                     *)
(*   "exited"     exit() was called: SystemExit is not an Exception, so    *)
(*                execute does not catch it and never returns              *)
(* The calls of twitter_planning_tool.execute do not suspend: the tool's   *)
(* commands contain no await.                                              *)
(***************************************************************************)
\* the plan_id of the session
active_plan_id == "tp"

\* PostStatus.get_active_statuses
ActiveStatuses == {"draft", "ready"}

\* the status the scan reads for post i
StatusAt(plan, i) ==
    IF i >= Len(plan.post_statuses) THEN "draft" ELSE plan.post_statuses[i + 1]

\* a scan that picks the last active post instead of the first
FirstActive_last(plan) ==
    LET active == { i \in 0..(Len(plan.posts) - 1) : StatusAt(plan, i) \in ActiveStatuses }
    IN IF active = {} THEN NoneIndex
       ELSE CHOOSE i \in active : \A j \in active : i >= j

\* a scan that takes failed posts for active ones
FirstActive_retries_failed(plan) ==
    LET active == { i \in 0..(Len(plan.posts) - 1) :
                      StatusAt(plan, i) \in ActiveStatuses \cup {"failed"} }
    IN IF active = {} THEN NoneIndex
       ELSE CHOOSE i \in active : \A j \in active : i <= j

\* a scan that gives up at the first post that is not active
FirstActive_stops_at_terminal(plan) ==
    IF Len(plan.posts) > 0 /\ StatusAt(plan, 0) \in ActiveStatuses THEN 0 ELSE NoneIndex

\* a scan that looks for draft posts only
FirstActive_draft_only(plan) ==
    LET active == { i \in 0..(Len(plan.posts) - 1) : StatusAt(plan, i) = "draft" }
    IN IF active = {} THEN NoneIndex
       ELSE CHOOSE i \in active : \A j \in active : i <= j

\* the index of the first post whose status is active, NoneIndex if there is none
FirstActive(plan) ==
    LET active == { i \in 0..(Len(plan.posts) - 1) : StatusAt(plan, i) \in ActiveStatuses }
    IN IF active = {} THEN NoneIndex
       ELSE CHOOSE i \in active : \A j \in active : i <= j

\* post_statuses with entry i set to status, the list first made long enough
\* with draft entries
SetStatusDirectly(statuses, i, status) ==
    IF i < Len(statuses) THEN [statuses EXCEPT ![i + 1] = status]
    ELSE Append(statuses \o Repeat("draft", i - Len(statuses)), status)

\* a scan that returns the post it found without marking it ready
get_current_post_info_no_mark(P, cur) ==
    IF ~Truthy(active_plan_id) \/ active_plan_id \notin DOMAIN P
    THEN [plans |-> P, cur |-> cur, index |-> NoneIndex]
    ELSE [plans |-> P, cur |-> cur, index |-> FirstActive(P[active_plan_id])]

\* _get_current_post_info: the store after it and the index it returns
get_current_post_info(P, cur) ==
    IF ~Truthy(active_plan_id) \/ active_plan_id \notin DOMAIN P
    THEN [plans |-> P, cur |-> cur, index |-> NoneIndex]
    ELSE LET plan == P[active_plan_id]
             i == FirstActive(plan)
         IN IF i = NoneIndex THEN [plans |-> P, cur |-> cur, index |-> NoneIndex]
            ELSE LET m == mark_post(P, cur, active_plan_id, i, "ready", None)
                 IN IF m.err = NoError
                    THEN [plans |-> m.plans, cur |-> m.cur, index |-> i]
                    ELSE [plans |-> DictSet(P, active_plan_id,
                                      [plan EXCEPT !.post_statuses =
                                          SetStatusDirectly(plan.post_statuses, i, "ready")]),
                          cur |-> cur, index |-> i]

\* marking a post posted that also empties the notes of every post of the plan
mark_post_posted_clears_notes(P, cur, index) ==
    IF index = NoneIndex THEN P
    ELSE LET m == mark_post(P, cur, active_plan_id, index, "posted", None)
         IN IF m.err = NoError
            THEN DictSet(m.plans, active_plan_id,
                    [m.plans[active_plan_id] EXCEPT !.post_notes =
                        Repeat("", Len(m.plans[active_plan_id].post_notes))])
            ELSE P

\* _mark_post_posted: the plans after it
mark_post_posted(P, cur, index) ==
    IF index = NoneIndex THEN P
    ELSE LET m == mark_post(P, cur, active_plan_id, index, "posted", None)
         IN IF m.err = NoError THEN m.plans
            ELSE IF active_plan_id \in DOMAIN P
                 THEN DictSet(P, active_plan_id,
                         [P[active_plan_id] EXCEPT !.post_statuses =
                             SetStatusDirectly(P[active_plan_id].post_statuses, index, "posted")])
                 ELSE P

\* a note made of the error's text alone, which may be empty
ErrorNote_bare == ""

\* the note _execute_post writes when executor.run raised
ErrorNote == "Error: e"

\* the parts of the string execute builds
Part(text, index) == [text |-> text, post |-> index]
Summaries == {"summary_llm", "summary_agent", "summary_generic"}

(***************************************************************************)
(* The answer of llm.ask_tool: a list of tool calls.                       *)
(***************************************************************************)
\* the longest list of tool calls of an answer
MaxToolCalls == 2

\* the keyword arguments of a call, with the plan_id the answer proposes
\* (None: it proposes none)
ToolCallKwargs ==
    { [command |-> "create", plan_id |-> None, title |-> "T1",
       posts |-> PostsList(<<[content |-> "a", image_prompt |-> ""],
                             [content |-> "b", image_prompt |-> "img"]>>)],
      [command |-> "create", plan_id |-> "other", title |-> "T2",
       posts |-> PostsList(<<[content |-> "b", image_prompt |-> "img"]>>)],
      [command |-> "create", plan_id |-> None, title |-> "",
       posts |-> PostsList(<<[content |-> "a", image_prompt |-> ""]>>)],
      [command |-> "create", plan_id |-> None, title |-> "T1", posts |-> PostsNone],
      [command |-> "update", plan_id |-> None, title |-> "T2", posts |-> PostsNone],
      [command |-> "delete", plan_id |-> None, title |-> "", posts |-> PostsNone],
      [command |-> None, plan_id |-> None, title |-> "T1", posts |-> PostsNone] }


ToolCalls ==
    { [name |-> "other_tool", json_ok |-> TRUE, kwargs |-> NoKwargs],
      [name |-> "twitter_planning", json_ok |-> FALSE, kwargs |-> NoKwargs] }
    \cup { [name |-> "twitter_planning", json_ok |-> TRUE, kwargs |-> k] : k \in ToolCallKwargs }

\* a loop that does not skip the calls whose arguments do not parse
Executable_unparsed_too(tool_calls) ==
    { k \in 1..Len(tool_calls) : tool_calls[k].name = "twitter_planning" }

\* the calls of the list that the loop of _create_initial_plan executes: those
\* of the planning tool whose arguments parse
Executable(tool_calls) ==
    { k \in 1..Len(tool_calls) : tool_calls[k].name = "twitter_planning" /\ tool_calls[k].json_ok }

\* the answer as the loop of _create_initial_plan takes it: no call of the
\* planning tool ("no_call"), calls of the planning tool none of which has
\* arguments that parse ("unparsable"), or the arguments of the first call of
\* the planning tool that parse ("call")
Answer(tool_calls) ==
    LET planning == { k \in 1..Len(tool_calls) : tool_calls[k].name = "twitter_planning" }
        parsed == { k \in planning : tool_calls[k].json_ok }
    IN IF planning = {} THEN [answer |-> "no_call", kwargs |-> NoKwargs]
       ELSE IF parsed = {} THEN [answer |-> "unparsable", kwargs |-> NoKwargs]
       ELSE [answer |-> "call",
             kwargs |-> tool_calls[CHOOSE k \in parsed : \A j \in parsed : k <= j].kwargs]

\* args["plan_id"] = self.active_plan_id
WithPlanId(kwargs) == [kwargs EXCEPT !.plan_id = active_plan_id]

\* TwitterPlanningTool.execute(**kwargs)
tool_execute(P, cur, kwargs) ==
    IF kwargs.command = None THEN Raise(P, cur, "TypeError")
    ELSE IF kwargs.command = "create"
         THEN create_plan(P, cur, kwargs.plan_id, kwargs.title, kwargs.posts)
    ELSE IF kwargs.command = "update"
         THEN update_plan(P, cur, kwargs.plan_id, kwargs.title, kwargs.posts)
    ELSE IF kwargs.command = "delete" THEN delete_plan(P, cur, kwargs.plan_id)
    ELSE Raise(P, cur, "UnrecognizedCommand")

\* the default plan of _create_initial_plan
DefaultTitle == "Twitter Plan for: req"
DefaultPosts == PostsList(<<[content |-> "Announcing: req", image_prompt |-> ""]>>)

(***************************************************************************)
(* The actions of the flow.                                                *)
(***************************************************************************)
\* except Exception: return "Execution failed: ..."
Abort(P, cur) ==
    /\ plans' = P
    /\ current_plan_id' = cur
    /\ pc' = "done"
    /\ returned' = "Execution failed"
    /\ UNCHANGED <<current_post_index, result, executed, post_type, executor>>

\* one pass of the while loop of execute, from its top to the next await, with
\* res the value of result: the scan, then either _finalize_plan up to llm.ask
\* or _execute_post up to executor.run
LoopIteration(P, cur, res) ==
    LET g == get_current_post_info(P, cur)
    IN /\ plans' = g.plans
       /\ current_plan_id' = g.cur
       /\ current_post_index' = g.index
       /\ result' = res
       /\ returned' = returned
       /\ IF g.index = NoneIndex
          THEN pc' = "ask" /\ UNCHANGED <<executed, post_type, executor>>
          ELSE /\ pc' = "run"
               /\ executed' = Append(executed, g.index)
               /\ post_type' = PostType(g.plans[active_plan_id].posts[g.index + 1])
               /\ executor' = get_executor(agents, executor_keys, primary_agent, post_type')

\* execute without the test for a primary agent
ExecuteStart_no_primary_test ==
    /\ pc = "start"
    /\ IF Truthy(input_text)
       THEN /\ pc' = "ask_tool"
            /\ UNCHANGED <<plans, current_plan_id, current_post_index, result,
                           returned, executed, post_type, executor>>
       ELSE LoopIteration(plans, current_plan_id, <<>>)
    /\ UNCHANGED <<toolVars, configVars, response, input_text, primary_agent, run_outcome,
                   executor_finished>>

\* execute that drafts a plan whether or not it was given a request
ExecuteStart_drafts_always ==
    /\ pc = "start"
    /\ IF ~primary_agent THEN Abort(plans, current_plan_id)
       ELSE /\ pc' = "ask_tool"
            /\ UNCHANGED <<plans, current_plan_id, current_post_index, result,
                           returned, executed, post_type, executor>>
    /\ UNCHANGED <<toolVars, configVars, response, input_text, primary_agent, run_outcome, executor_finished>>

\* execute, from its call to its first await
ExecuteStart ==
    /\ pc = "start"
    /\ IF ~primary_agent THEN Abort(plans, current_plan_id)
       ELSE IF Truthy(input_text)
            THEN /\ pc' = "ask_tool"
                 /\ UNCHANGED <<plans, current_plan_id, current_post_index, result,
                                returned, executed, post_type, executor>>
            ELSE LoopIteration(plans, current_plan_id, <<>>)
    /\ UNCHANGED <<toolVars, configVars, response, input_text, primary_agent, run_outcome, executor_finished>>

\* llm.ask_tool returns (or raises): the rest of _create_initial_plan, the
\* check of execute that the plan exists, and the first pass of the loop
AskToolReturns ==
    /\ pc = "ask_tool"
    /\ \E raises \in BOOLEAN, tool_calls \in SeqsUpTo(ToolCalls, MaxToolCalls) :
          /\ response' = IF raises THEN [answer |-> "raised", kwargs |-> NoKwargs]
                          ELSE Answer(tool_calls)
          /\ IF raises THEN Abort(plans, current_plan_id)
             ELSE IF Executable(tool_calls) # {}
             THEN LET k == CHOOSE x \in Executable(tool_calls) :
                              \A y \in Executable(tool_calls) : x <= y
                      r == tool_execute(plans, current_plan_id, WithPlanId(tool_calls[k].kwargs))
                  IN IF r.err # NoError THEN Abort(r.plans, r.cur)
                     ELSE \* exit()
                          /\ plans' = r.plans
                          /\ current_plan_id' = r.cur
                          /\ pc' = "exited"
                          /\ UNCHANGED <<current_post_index, result, returned, executed, post_type, executor>>
             ELSE LET r == create_plan(plans, current_plan_id, active_plan_id,
                                       DefaultTitle, DefaultPosts)
                  IN IF r.err # NoError THEN Abort(r.plans, r.cur)
                     ELSE IF active_plan_id \notin DOMAIN r.plans
                          THEN /\ plans' = r.plans
                               /\ current_plan_id' = r.cur
                               /\ pc' = "done"
                               /\ returned' = "Failed to create"
                               /\ UNCHANGED <<current_post_index, result, executed, post_type, executor>>
                          ELSE LoopIteration(r.plans, r.cur, <<>>)
    /\ UNCHANGED <<toolVars, configVars, input_text, primary_agent, run_outcome, executor_finished>>

\* a check of the executor's state that never ends the loop
Terminates_never(finished) == FALSE

\* hasattr(executor, "state") and executor.state == AgentState.FINISHED
Terminates(finished) == finished

\* executor.run returns (ok) or raises: the rest of _execute_post, the check
\* of the executor's state, and the next pass of the loop
ExecutorRunReturns ==
    /\ pc = "run"
    /\ \E ok \in BOOLEAN, finished \in BOOLEAN :
          /\ run_outcome' = IF ok THEN "ok" ELSE "raised"
          /\ executor_finished' = finished
          /\ LET m == mark_post(plans, current_plan_id, active_plan_id,
                                current_post_index, "failed", ErrorNote)
                 P == IF ok THEN mark_post_posted(plans, current_plan_id, current_post_index)
                      ELSE m.plans
                 res == Append(result, Part(IF ok THEN "post_result" ELSE "error",
                                            current_post_index))
             IN IF ~ok /\ m.err # NoError THEN Abort(m.plans, m.cur)
                ELSE IF Terminates(finished)
                     THEN /\ plans' = P
                          /\ pc' = "done"
                          /\ result' = res
                          /\ returned' = "result"
                          /\ UNCHANGED <<current_plan_id, current_post_index, executed, post_type, executor>>
                     ELSE LoopIteration(P, current_plan_id, res)
    /\ UNCHANGED <<toolVars, configVars, response, input_text, primary_agent>>

\* a finalizer whose llm.ask is not inside a try: its error reaches execute
LlmAskReturns_unguarded ==
    /\ pc = "ask"
    /\ \E ok \in BOOLEAN :
          IF ok
          THEN /\ result' = Append(result, Part("summary_llm", NoneIndex))
               /\ pc' = "done"
               /\ returned' = "result"
               /\ UNCHANGED <<storeVars, current_post_index, executed, post_type, executor>>
          ELSE Abort(plans, current_plan_id)
    /\ UNCHANGED <<toolVars, configVars, response, input_text, primary_agent, run_outcome,
                   executor_finished>>

\* llm.ask of _finalize_plan returns or raises
LlmAskReturns ==
    /\ pc = "ask"
    /\ \E ok \in BOOLEAN :
          IF ok
          THEN /\ result' = Append(result, Part("summary_llm", NoneIndex))
               /\ pc' = "done"
               /\ returned' = "result"
          ELSE /\ pc' = "agent_run"
               /\ UNCHANGED <<result, returned>>
    /\ UNCHANGED <<storeVars, toolVars, configVars, response, input_text, primary_agent,
                   current_post_index, executed, run_outcome, executor_finished,
                   post_type, executor>>

\* primary_agent.run of _finalize_plan returns or raises
AgentSummaryReturns ==
    /\ pc = "agent_run"
    /\ \E ok \in BOOLEAN :
          result' = Append(result, Part(IF ok THEN "summary_agent" ELSE "summary_generic",
                                        NoneIndex))
    /\ pc' = "done"
    /\ returned' = "result"
    /\ UNCHANGED <<storeVars, toolVars, configVars, response, input_text, primary_agent,
                   current_post_index, executed, run_outcome, executor_finished,
                   post_type, executor>>

(***************************************************************************)
(* One run of execute on a store that nothing else touches.  The store     *)
(* starts in a state that commands given before the run lead to: no plan   *)
(* under the session's plan_id or one with posts in any statuses, and      *)
(* possibly another plan.                                                  *)
(***************************************************************************)
\* the lists of n posts of the initial plans: text posts only, or posts with
\* and without an image prompt in turn
InitialPosts(n) ==
    { [i \in 1..n |-> [content |-> "a", image_prompt |-> ""]],
      [i \in 1..n |-> IF i % 2 = 1 THEN [content |-> "b", image_prompt |-> "img"]
                                   ELSE [content |-> "a", image_prompt |-> ""]] }

InitialPlans(plan_id) ==
    UNION { { [plan_id |-> plan_id, title |-> "T1", posts |-> posts,
               post_statuses |-> statuses,
               post_notes |-> [i \in 1..n |-> IF statuses[i] = "failed" THEN "n1" ELSE ""]] :
                posts \in InitialPosts(n), statuses \in [1..n -> PostStatus] } :
            n \in 1..MaxPosts }

OtherPlan ==
    [plan_id |-> "other", title |-> "T2",
     posts |-> <<[content |-> "b", image_prompt |-> "img"]>>,
     post_statuses |-> <<"ready">>, post_notes |-> <<"n1">>]

InitialStores ==
    LET targets == {[x \in {} |-> x]}
                   \cup { [x \in {active_plan_id} |-> p] : p \in InitialPlans(active_plan_id) }
    IN targets \cup { DictSet(P, "other", OtherPlan) : P \in targets }

Init ==
    /\ plans \in InitialStores
    /\ current_plan_id \in {None} \cup DOMAIN plans
    /\ lastCommand = "none"
    /\ lastError = NoError
    /\ nops = 0
    /\ input_text \in {"", "req"}
    /\ primary_agent \in BOOLEAN
    /\ agents = <<"manus", "image">>
    /\ executor_keys = init_executor_keys(agents, <<>>)
    /\ store_at_start = [plans |-> plans, cur |-> current_plan_id]
    /\ FlowNotStarted

Next ==
    \/ ExecuteStart
    \/ AskToolReturns
    \/ ExecutorRunReturns
    \/ LlmAskReturns
    \/ AgentSummaryReturns

Spec == Init /\ [][Next]_vars

\* every await returns: the collaborators answer or raise
SpecFair == Spec /\ WF_vars(Next)

(***************************************************************************)
(* One run of execute during which the store is also given commands from   *)
(* outside the flow (by the executor, which is an agent that may hold the  *)
(* planning tool, or by another caller): at most MaxOutOfBand commands,    *)
(* each while the flow stands at an await.  The run is execute("") on a    *)
(* plan whose posts are all draft.                                         *)
(***************************************************************************)
\* the number of commands given to the store from outside during one run
MaxOutOfBand == 1

Suspended == {"run", "ask", "agent_run"}

FreshPlans ==
    { [x \in {active_plan_id} |-> create_plan([y \in {} |-> y], None, active_plan_id, "T1",
                                              PostsList(posts)).plans[active_plan_id]] :
        posts \in UNION { InitialPosts(n) : n \in 1..MaxPosts } }

InitOutOfBand ==
    /\ plans \in FreshPlans
    /\ current_plan_id = active_plan_id
    /\ lastCommand = "none"
    /\ lastError = NoError
    /\ nops = 0
    /\ input_text = ""
    /\ primary_agent = TRUE
    /\ agents = <<"manus">>
    /\ executor_keys = init_executor_keys(agents, <<>>)
    /\ store_at_start = [plans |-> plans, cur |-> current_plan_id]
    /\ FlowNotStarted

OutOfBand ==
    /\ pc \in Suspended
    /\ nops < MaxOutOfBand
    /\ \/ CreateCommand
       \/ UpdateCommand
       \/ ListCommand
       \/ GetCommand
       \/ SetActiveCommand
       \/ MarkPostCommand
       \/ DeleteCommand

NextOutOfBand ==
    \/ ExecuteStart
    \/ ExecutorRunReturns
    \/ LlmAskReturns
    \/ AgentSummaryReturns
    \/ OutOfBand

SpecOutOfBand == InitOutOfBand /\ [][NextOutOfBand]_vars

(***************************************************************************)
(* The selector on its own: a flow constructed with any registry of at     *)
(* most MaxAgents agents and any executors argument of at most MaxAgents   *)
(* keys, and get_executor called with any post type.                       *)
(***************************************************************************)
\* the largest number of agents of a registry, and of keys of an executors argument
MaxAgents == 2

AgentKeys == {"image", "text", "manus"}
\* the keys an executors argument may hold: those, and one that no registry has
KeyArgs == AgentKeys \cup {"ghost"}
TypeArgs == {None, "", "image", "text", "poll"}

\* the registries: lists of distinct keys
Registries ==
    { r \in SeqsUpTo(AgentKeys, MaxAgents) : \A i, j \in 1..Len(r) : i # j => r[i] # r[j] }

InitSelector ==
    /\ plans = [x \in {} |-> x]
    /\ current_plan_id = None
    /\ lastCommand = "none"
    /\ lastError = NoError
    /\ nops = 0
    /\ input_text = ""
    /\ primary_agent \in BOOLEAN
    /\ agents \in Registries
    /\ \E executors \in SeqsUpTo(KeyArgs, MaxAgents) :
          executor_keys = init_executor_keys(agents, executors)
    /\ store_at_start = [plans |-> plans, cur |-> current_plan_id]
    /\ FlowNotStarted

GetExecutor ==
    /\ \E type \in TypeArgs :
          /\ post_type' = type
          /\ executor' = get_executor(agents, executor_keys, primary_agent, type)
    /\ UNCHANGED <<storeVars, toolVars, configVars, pc, input_text, primary_agent,
                   current_post_index, result, returned, executed, run_outcome,
                   executor_finished, response>>

NextSelector == GetExecutor

SpecSelector == InitSelector /\ [][NextSelector]_vars

(***************************************************************************)
(* Two runs of execute("") on one event loop, by two flows that share one  *)
(* planning tool and have the same plan_id.  The flow variables are those  *)
(* of the run the event loop is executing; other_run holds those of the    *)
(* run that stands at an await (or has not begun).  A coroutine runs       *)
(* without interruption from one await to the next, so the event loop      *)
(* changes runs only between two steps.  The store starts with a plan      *)
(* whose posts are all draft.                                              *)
(***************************************************************************)
\* the flow variables of the run being executed, as run number n
ThisRun(n) ==
    [run |-> n, pc |-> pc, input_text |-> input_text, primary_agent |-> primary_agent,
     current_post_index |-> current_post_index, result |-> result, returned |-> returned,
     executed |-> executed, run_outcome |-> run_outcome,
     executor_finished |-> executor_finished, post_type |-> post_type,
     executor |-> executor, response |-> response]

InitTwoRuns ==
    /\ plans \in FreshPlans
    /\ current_plan_id = active_plan_id
    /\ lastCommand = "none"
    /\ lastError = NoError
    /\ nops = 0
    /\ input_text = ""
    /\ primary_agent = TRUE
    /\ agents = <<"manus">>
    /\ executor_keys = init_executor_keys(agents, <<>>)
    /\ store_at_start = [plans |-> plans, cur |-> current_plan_id]
    /\ RunNotStarted
    /\ other_run = ThisRun(2)

\* the event loop leaves the run it was executing at its await and resumes
\* the other run, which has not returned yet
Switch ==
    /\ other_run.pc # "done"
    /\ pc' = other_run.pc
    /\ input_text' = other_run.input_text
    /\ primary_agent' = other_run.primary_agent
    /\ current_post_index' = other_run.current_post_index
    /\ result' = other_run.result
    /\ returned' = other_run.returned
    /\ executed' = other_run.executed
    /\ run_outcome' = other_run.run_outcome
    /\ executor_finished' = other_run.executor_finished
    /\ post_type' = other_run.post_type
    /\ executor' = other_run.executor
    /\ response' = other_run.response
    /\ other_run' = ThisRun(3 - other_run.run)
    /\ UNCHANGED <<storeVars, toolVars, agents, executor_keys, store_at_start>>

NextTwoRuns ==
    \/ ExecuteStart
    \/ ExecutorRunReturns
    \/ LlmAskReturns
    \/ AgentSummaryReturns
    \/ Switch

SpecTwoRuns == InitTwoRuns /\ [][NextTwoRuns]_vars


(***************************************************************************)
(* Claims about one run of execute.                                        *)
(***************************************************************************)
HasPlan == active_plan_id \in DOMAIN plans
Terminal == {"posted", "failed"}

\* the number of active posts of the session's plan
ActiveCount(P) ==
    IF active_plan_id \in DOMAIN P
    THEN Cardinality({ i \in 0..(Len(P[active_plan_id].posts) - 1) :
                          StatusAt(P[active_plan_id], i) \in ActiveStatuses })
    ELSE 0

\* post k is in the store under the session's plan_id
ItemInStore(k) == HasPlan /\ k < Len(plans[active_plan_id].posts)

\* the step in which the flow takes the answer of executor.run
RunReturns == pc = "run" /\ nops' = nops

\* C1: in one run the executor is called for posts in strictly ascending index
\* order, and a post whose status is posted or failed is not selected for
\* another call.
C1_AscendingNoRevisit ==
    /\ [](\A i, j \in 1..Len(executed) : i < j => executed[i] < executed[j])
    /\ [][ executed' # executed =>
             LET k == executed'[Len(executed')]
             IN /\ executed' = Append(executed, k)
                /\ (HasPlan /\ k < Len(plans[active_plan_id].post_statuses))
                      => plans[active_plan_id].post_statuses[k + 1] \notin Terminal ]_vars

\* a run that called the executor for post 0, which failed, and then for post 1
C1_Witness ==
    /\ pc = "done"
    /\ executed = <<0, 1>>
    /\ HasPlan
    /\ plans[active_plan_id].post_statuses = <<"failed", "posted">>

\* C2 as stated: when executor.run raises on post k, post k is failed with a
\* non-empty note, execute does not return the whole-run failure, and the loop
\* goes on: to post k+1 when it is active, else to the next active post or,
\* when there is none, to the finalizer.
C2_Original ==
    [][ (RunReturns /\ run_outcome' = "raised") =>
          LET k == current_post_index
          IN /\ HasPlan'
             /\ k < Len(plans'[active_plan_id].posts)
             /\ plans'[active_plan_id].post_statuses[k + 1] = "failed"
             /\ plans'[active_plan_id].post_notes[k + 1] # ""
             /\ returned' # "Execution failed"
             /\ pc' \in {"run", "ask"}
             /\ (k + 1 < Len(plans[active_plan_id].posts)
                   /\ plans[active_plan_id].post_statuses[k + 2] \in ActiveStatuses)
                  => (pc' = "run" /\ current_post_index' = k + 1
                        /\ executed' = Append(executed, k + 1)) ]_vars

\* C2 amended: when executor.run raises on post k, the flow issues mark_post
\* (k, failed, note of the error).  If post k is still in the store, post k
\* is failed with a non-empty note, execute does not return the whole-run
\* failure and the error message of post k is appended to the result; then,
\* if the executor's state is finished, execute returns what it has
\* accumulated and selects no other post, and otherwise the loop goes on to
\* the lowest active post (k+1 when it is active and no lower post is), or to
\* the finalizer when no post is active.  If post k is no longer in the store
\* (the plan was deleted or shortened from outside during the run), the
\* command raises, nothing catches it, and execute returns the whole-run
\* failure.
C2_FailureMarksAndContinues ==
    [][ (RunReturns /\ run_outcome' = "raised") =>
          LET k == current_post_index
              id == active_plan_id
          IN IF ~ItemInStore(k)
             THEN pc' = "done" /\ returned' = "Execution failed" /\ UNCHANGED storeVars
             ELSE /\ HasPlan'
                  /\ plans'[id].post_statuses[k + 1] = "failed"
                  /\ plans'[id].post_notes[k + 1] # ""
                  /\ returned' # "Execution failed"
                  /\ result' = Append(result, Part("error", k))
                  /\ IF executor_finished'
                     THEN pc' = "done" /\ returned' = "result" /\ executed' = executed
                     ELSE /\ pc' \in {"run", "ask"}
                          /\ pc' = "ask" => ActiveCount(plans') = 0
                          /\ pc' = "run" =>
                               /\ executed' = Append(executed, current_post_index')
                               /\ plans[id].post_statuses[current_post_index' + 1] \in ActiveStatuses
                               /\ \A j \in 0..(current_post_index' - 1) :
                                      plans'[id].post_statuses[j + 1] \in Terminal
                          /\ (/\ k + 1 < Len(plans[id].posts)
                              /\ plans[id].post_statuses[k + 2] \in ActiveStatuses
                              /\ \A j \in 0..(k - 1) : plans[id].post_statuses[j + 1] \in Terminal)
                               => (pc' = "run" /\ current_post_index' = k + 1) ]_vars

\* executor.run raised on post 0, and the flow now awaits the run of post 1
C2_Witness ==
    /\ pc = "run"
    /\ run_outcome = "raised"
    /\ ~executor_finished
    /\ executed = <<0, 1>>
    /\ plans[active_plan_id].post_statuses = <<"failed", "ready">>
    /\ plans[active_plan_id].post_notes[1] = ErrorNote
    /\ returned = None

\* C3 as stated: a store command that raises while the loop settles the post it
\* ran (marking it posted after a run that returned, failed after a run that
\* raised) is caught: the run is not aborted and the post, if its plan is
\* still in the store, has the status intended.
C3_BookkeepingFailureCaught ==
    [][ RunReturns =>
          /\ returned' # "Execution failed"
          /\ HasPlan' =>
                StatusAt(plans'[active_plan_id], current_post_index)
                   = (IF run_outcome' = "ok" THEN "posted" ELSE "failed") ]_vars

\* C4 as stated: when execute returns after the executor signalled that it has
\* finished, the finalizer has run: the result ends with the plan summary.
C4_Original ==
    (pc = "done" /\ returned = "result" /\ executor_finished)
        => (result # <<>> /\ result[Len(result)].text \in Summaries)

\* C4 amended: when the executor's state is finished after the run of a post
\* whose outcome the flow could record, the loop executes no further post even
\* if active posts remain, and execute returns at once what it has
\* accumulated, ending with the outcome of that post: the finalizer does not
\* run and the result holds no plan summary.  (When the run raised and the
\* post is no longer in the store, execute returns the whole-run failure
\* before it looks at the executor's state.)
C4_FinishedReturnsWithoutSummary ==
    [][ (RunReturns /\ executor_finished') =>
          IF run_outcome' = "raised" /\ ~ItemInStore(current_post_index)
          THEN pc' = "done" /\ returned' = "Execution failed"
          ELSE /\ pc' = "done"
               /\ returned' = "result"
               /\ executed' = executed
               /\ result' = Append(result,
                                   Part(IF run_outcome' = "ok" THEN "post_result" ELSE "error",
                                        current_post_index))
               /\ \A i \in 1..Len(result') : result'[i].text \notin Summaries ]_vars

\* execute has returned after the run of post 0, whose executor finished, and
\* post 1 is still draft
C4_Witness ==
    /\ pc = "done"
    /\ executor_finished
    /\ returned = "result"
    /\ executed = <<0>>
    /\ plans[active_plan_id].post_statuses = <<"posted", "draft">>

\* C5 as stated: when execute("") has returned, the store holds a plan under
\* the session's plan_id (the default plan, completed, when there was none).
C5_Original ==
    (pc = "done" /\ input_text = "" /\ primary_agent) => HasPlan

\* C5 amended: execute("") called when the store holds no plan under the
\* session's plan_id creates no plan and calls no executor: it goes straight
\* to the finalizer, and when it returns the store is as it was and the result
\* is the finalizer's summary alone.
C5_EmptyRequestNoPlanFinalizes ==
    /\ [][ (pc = "start" /\ input_text = "" /\ primary_agent /\ ~HasPlan) =>
             (pc' = "ask" /\ UNCHANGED storeVars /\ executed' = <<>> /\ result' = <<>>) ]_vars
    /\ []((pc = "done" /\ input_text = "" /\ primary_agent /\ ~HasPlan) =>
             (/\ executed = <<>>
              /\ returned = "result"
              /\ Len(result) = 1
              /\ result[1].text \in Summaries))

\* execute("") has returned, and the store holds no plan under the session's
\* plan_id
C5_Witness ==
    /\ pc = "done"
    /\ input_text = ""
    /\ primary_agent
    /\ ~HasPlan
    /\ returned = "result"

\* C6: with no command from outside, every step that takes the answer of
\* executor.run leaves fewer active posts than there were, the executor is
\* called at most once per post of the plan, and a run that has entered the
\* loop returns.
C6_LoopTerminates ==
    /\ [][ RunReturns => ActiveCount(plans') < ActiveCount(plans) ]_vars
    /\ [](executed # <<>> => (HasPlan /\ Len(executed) <= Len(plans[active_plan_id].posts)))
    /\ [](pc \in {"run", "ask", "agent_run"} => <>(pc = "done"))

\* a run over a two-post plan has returned after one run that raised and one
\* that returned
C6_Witness ==
    /\ pc = "done"
    /\ Len(executed) = 2
    /\ \E i, j \in 1..Len(result) : result[i].text = "error" /\ result[j].text = "post_result"
    /\ ActiveCount(plans) = 0

\* the posts of the session's plan that were active when execute was called
ActiveAtStart ==
    LET p0 == store_at_start.plans[active_plan_id]
    IN { i \in 0..(Len(p0.posts) - 1) : StatusAt(p0, i) \in ActiveStatuses }

\* execute has returned its result after the finalizer ran
Finalized ==
    /\ pc = "done"
    /\ returned = "result"
    /\ result # <<>>
    /\ result[Len(result)].text \in Summaries

C13_FinalizingMeansNoActive ==
    [][ (pc # "ask" /\ pc' = "ask") =>
          (HasPlan' =>
             \A i \in 0..(Len(plans'[active_plan_id].posts) - 1) :
                 StatusAt(plans'[active_plan_id], i) \in Terminal) ]_vars

\* the flow awaits the finalizer's summary of a plan whose posts it has run
C13_Witness ==
    /\ pc = "ask"
    /\ HasPlan
    /\ executed = <<0, 1>>
    /\ plans[active_plan_id].post_statuses = <<"failed", "posted">>

\* the step in which the store comes to hold, under the session's plan_id, a
\* plan that an answer of llm.ask_tool specified (not the default plan)
StructuredPlanCreated ==
    /\ pc = "ask_tool"
    /\ ~HasPlan
    /\ HasPlan'
    /\ plans'[active_plan_id].title # DefaultTitle

\* C14 as stated: when the answer of llm.ask_tool specifies a plan, the plan is
\* created under the session's plan_id and under no other, whatever plan_id
\* the answer proposed, and execute goes on into the loop over the posts of
\* that plan: it does not stop before it returns.
C14_StructuredPlanRuns ==
    /\ [][ StructuredPlanCreated =>
             /\ DOMAIN plans' = DOMAIN plans \cup {active_plan_id}
             /\ pc' = "run"
             /\ executed' = <<0>> ]_vars
    /\ [](pc # "exited")

\* the run was aborted in this step: execute returns the whole-run failure,
\* with the store as it was and no post run
AbortsUntouched ==
    /\ pc' = "done"
    /\ returned' = "Execution failed"
    /\ result' = <<>>
    /\ executed' = <<>>
    /\ UNCHANGED storeVars

\* the step in which llm.ask_tool answers with nothing the loop executes
NoStructuredResult == pc = "ask_tool" /\ response'.answer \in {"no_call", "unparsable"}

\* the default plan, its post selected by the scan
DefaultPlanSelected ==
    [plan_id |-> active_plan_id, title |-> DefaultTitle, posts |-> DefaultPosts.val,
     post_statuses |-> <<"ready">>, post_notes |-> <<"">>]

\* C15 as stated: when llm.ask_tool answers with no call of the planning tool,
\* or only with calls whose arguments do not parse, the flow creates under the
\* session's plan_id the one-post default plan and the loop runs that post.
C15_Original ==
    [][ NoStructuredResult =>
          /\ HasPlan'
          /\ plans'[active_plan_id].title = DefaultTitle
          /\ Len(plans'[active_plan_id].posts) = 1
          /\ pc' = "run"
          /\ executed' = <<0>> ]_vars

\* C15 amended: when llm.ask_tool answers with no call of the planning tool, or
\* only with calls of it whose arguments are not valid JSON, and the store
\* holds no plan under the session's plan_id, the flow creates under that id
\* the default plan with exactly one post, draft, makes it the active plan, and
\* the loop selects that post (now ready) and runs it; when the store already
\* holds a plan under that id the default create raises and the run is
\* aborted with the store untouched.  In no case does the loop start without
\* a plan under the session's plan_id.
C15_DefaultPlanWhenNoneExists ==
    /\ [][ NoStructuredResult =>
             IF ~HasPlan
             THEN /\ DOMAIN plans' = DOMAIN plans \cup {active_plan_id}
                  /\ \A o \in DOMAIN plans : plans'[o] = plans[o]
                  /\ plans'[active_plan_id] = DefaultPlanSelected
                  /\ current_plan_id' = active_plan_id
                  /\ pc' = "run"
                  /\ current_post_index' = 0
                  /\ executed' = <<0>>
             ELSE AbortsUntouched ]_vars
    /\ [][ (pc = "ask_tool" /\ pc' \in {"run", "ask"}) => HasPlan' ]_vars

\* the flow awaits the run of the post of the default plan, created after an
\* answer whose calls did not parse, next to another plan
C15_Witness ==
    /\ pc = "run"
    /\ response.answer = "unparsable"
    /\ HasPlan
    /\ plans[active_plan_id] = DefaultPlanSelected
    /\ "other" \in DOMAIN plans
    /\ executed = <<0>>

\* C16: when the flow has no primary agent, execute returns the whole-run
\* failure at once: llm.ask_tool is not called, no executor is run, and the
\* plans and the active pointer are as they were when execute was called.
C16_NoPrimaryAborts ==
    /\ [][ (pc = "start" /\ ~primary_agent) => (AbortsUntouched /\ response' = NoResponse) ]_vars
    /\ [](~primary_agent =>
            /\ pc \in {"start", "done"}
            /\ executed = <<>>
            /\ response = NoResponse
            /\ executor = NoAgent
            /\ plans = store_at_start.plans
            /\ current_plan_id = store_at_start.cur)

\* execute("req") of a flow without primary agent has returned the failure on
\* a store that holds a plan with active posts
C16_Witness ==
    /\ pc = "done"
    /\ ~primary_agent
    /\ input_text = "req"
    /\ returned = "Execution failed"
    /\ HasPlan
    /\ ActiveCount(plans) > 0

\* the step in which a create issued by _create_initial_plan raises: the
\* default create or a create of the answer, on a store that holds a plan
\* under the session's plan_id or with a title or posts the tool rejects
CreateFails ==
    /\ pc = "ask_tool"
    /\ \/ response'.answer \in {"no_call", "unparsable"} /\ HasPlan
       \/ /\ response'.answer = "call"
          /\ response'.kwargs.command = "create"
          /\ \/ HasPlan
             \/ ~Truthy(response'.kwargs.title)
             \/ ~PostsTruthy(response'.kwargs.posts)

\* C17: when a create issued while drafting raises (as it does when execute is
\* given a request while the store holds a plan under the session's plan_id),
\* execute returns the whole-run failure alone, no executor is run, and the
\* plans, that plan's posts, statuses and notes among them, and the active
\* pointer are unchanged.
C17_CreateFailureAborts ==
    /\ [][ CreateFails => AbortsUntouched ]_vars
    /\ []((input_text = "req" /\ active_plan_id \in DOMAIN store_at_start.plans
             /\ response.answer \in {"no_call", "unparsable"})
            => (/\ pc = "done"
                /\ returned = "Execution failed"
                /\ executed = <<>>
                /\ plans = store_at_start.plans))

\* execute("req") has returned the failure after the default create raised on
\* a store whose plan has a posted and a draft post
C17_Witness ==
    /\ pc = "done"
    /\ input_text = "req"
    /\ returned = "Execution failed"
    /\ response.answer = "no_call"
    /\ HasPlan
    /\ plans[active_plan_id].post_statuses = <<"posted", "draft">>
    /\ plans = store_at_start.plans

\* C19: the finalizer does not raise.  When its llm.ask returns, execute
\* returns the result with that summary appended; when llm.ask raises, and
\* only then, the primary agent is run for the summary, and execute returns
\* the result with the agent's summary appended, or with the generic notice
\* when that run raises too.
C19_FinalizerFallbacks ==
    /\ [][ pc = "ask" =>
             \/ /\ pc' = "done"
                /\ returned' = "result"
                /\ result' = Append(result, Part("summary_llm", NoneIndex))
             \/ /\ pc' = "agent_run"
                /\ result' = result
                /\ returned' = returned ]_vars
    /\ [][ pc = "agent_run" =>
             /\ pc' = "done"
             /\ returned' = "result"
             /\ \E text \in {"summary_agent", "summary_generic"} :
                   result' = Append(result, Part(text, NoneIndex)) ]_vars
    /\ [][ pc' = "agent_run" => pc \in {"ask", "agent_run"} ]_vars
    /\ [][ (pc = "ask" \/ pc = "agent_run") =>
             /\ returned' # "Execution failed"
             /\ plans' = plans
             /\ current_plan_id' = current_plan_id ]_vars

\* execute has returned the outcomes of two posts followed by the generic
\* notice: llm.ask and the primary agent's run both raised
C19_Witness ==
    /\ pc = "done"
    /\ returned = "result"
    /\ Len(executed) = 2
    /\ Len(result) = 3
    /\ result[3] = Part("summary_generic", NoneIndex)

(***************************************************************************)
(* Claims about the selector, checked under SpecSelector.                  *)
(***************************************************************************)
\* what the selector is to return for a post type
Selected(type, e) ==
    IF Truthy(type) /\ type \in Range(agents)
    THEN e = FromAgents(type)
    ELSE IF \E i \in 1..Len(executor_keys) : executor_keys[i] \in Range(agents)
         THEN \E i \in 1..Len(executor_keys) :
                 /\ executor_keys[i] \in Range(agents)
                 /\ \A j \in 1..(i - 1) : executor_keys[j] \notin Range(agents)
                 /\ e = FromAgents(executor_keys[i])
         ELSE e = PrimaryAgent(primary_agent)

\* C18: get_executor returns the agent registered under the post type when a
\* post type is given and is a key of agents; otherwise the agent of the first
\* key of executor_keys, in its order, that is a key of agents; otherwise the
\* primary agent.
C18_SelectorContract ==
    /\ [](\A type \in TypeArgs :
            Selected(type, get_executor(agents, executor_keys, primary_agent, type)))
    /\ [][ (post_type' # post_type \/ executor' # executor)
              => Selected(post_type', executor') ]_vars

\* the selector has returned the primary agent for a post type that the
\* registry lacks, the only executor key being one the registry lacks too
C18_Witness ==
    /\ post_type = "image"
    /\ agents = <<"text", "manus">>
    /\ executor_keys = <<"ghost">>
    /\ executor = PrimaryAgent(TRUE)

(***************************************************************************)
(* Claims about the Plan Store, checked under SpecStore.                   *)
(***************************************************************************)

\* C7: for every plan in the store, the statuses, the notes and the posts have
\* the same length after every command, whether it succeeded or raised.
C7_LengthsAligned ==
    \A id \in DOMAIN plans :
        /\ Len(plans[id].post_statuses) = Len(plans[id].posts)
        /\ Len(plans[id].post_notes) = Len(plans[id].posts)

\* an update has just replaced the posts of a plan with marked posts by a
\* one-post list
C7_Witness ==
    /\ lastCommand = "update"
    /\ lastError = NoError
    /\ nops = 3
    /\ \E id \in DOMAIN plans :
          /\ Len(plans[id].posts) = 1
          /\ plans[id].post_statuses = <<"posted">>
          /\ plans[id].post_notes = <<"n1">>

\* C8: a successful update keeps the status and the notes at index i when the
\* new post at i equals the old post at i (and i is within the old list), and
\* sets every other index of the new list to draft and empty notes, whether or
\* not the same post stands at another index of the old list.
C8_UpdatePreservesByIndex ==
    [][ (lastCommand' = "update" /\ lastError' = NoError) =>
          \A id \in DOMAIN plans :
             /\ id \in DOMAIN plans'
             /\ \A i \in 1..Len(plans'[id].posts) :
                   IF i <= Len(plans[id].posts) /\ plans'[id].posts[i] = plans[id].posts[i]
                   THEN /\ plans'[id].post_statuses[i] = plans[id].post_statuses[i]
                        /\ plans'[id].post_notes[i] = plans[id].post_notes[i]
                   ELSE /\ plans'[id].post_statuses[i] = "draft"
                        /\ plans'[id].post_notes[i] = "" ]_vars

\* an update has left a plan with the same post at both indices, the first
\* with its status and notes, the second reset
C8_Witness ==
    /\ lastCommand = "update"
    /\ lastError = NoError
    /\ \E id \in DOMAIN plans :
          /\ Len(plans[id].posts) = 2
          /\ plans[id].posts[1] = plans[id].posts[2]
          /\ plans[id].post_statuses = <<"posted", "draft">>
          /\ plans[id].post_notes = <<"n1", "">>

\* C9: create with a plan_id the store holds raises (the "already exists"
\* error) whatever the title and the posts are, and leaves the plans and the
\* active pointer as they were.
C9_DuplicateCreateFails ==
    /\ [](\A plan_id \in DOMAIN plans, title \in TitleArgs, posts \in PostsArgs :
            LET r == create_plan(plans, current_plan_id, plan_id, title, posts)
            IN /\ r.err = "AlreadyExists"
               /\ r.plans = plans
               /\ r.cur = current_plan_id)
    /\ [][ (lastCommand' = "create" /\ lastError' = "AlreadyExists")
              => UNCHANGED storeVars ]_vars

\* a create has just raised "already exists" on a store whose plan has a
\* marked post, and another plan is the active one
C9_Witness ==
    /\ lastCommand = "create"
    /\ lastError = "AlreadyExists"
    /\ \E id \in DOMAIN plans : plans[id].post_statuses[1] = "posted"

\* C10: the active pointer is unset or names a plan of the store.
C10_ActivePointerValid ==
    current_plan_id = None \/ current_plan_id \in DOMAIN plans

\* the active plan has just been deleted while another plan remains
C10_Witness ==
    /\ lastCommand = "delete"
    /\ lastError = NoError
    /\ current_plan_id = None
    /\ DOMAIN plans # {}

\* a step that is the store command named
StoreStep(command) == nops' = nops + 1 /\ lastCommand' = command

\* C11: a delete that succeeds removes the plan it names and leaves every other
\* plan as it was; when that plan was the active one the pointer is cleared,
\* and while the pointer is unset a get without plan_id raises "no active
\* plan", the pointer being set again only by a create or a set_active that
\* succeeds; when it was not the active one the pointer stays as it was.
C11_DeleteClearsActive ==
    /\ [][ (StoreStep("delete") /\ lastError' = NoError) =>
             \E id \in DOMAIN plans :
                /\ DOMAIN plans' = DOMAIN plans \ {id}
                /\ \A o \in DOMAIN plans' : plans'[o] = plans[o]
                /\ IF current_plan_id = id
                   THEN /\ current_plan_id' = None
                        /\ get_plan(plans', current_plan_id', None).err = "NoActivePlan"
                   ELSE current_plan_id' = current_plan_id ]_vars
    /\ [](current_plan_id = None =>
             get_plan(plans, current_plan_id, None).err = "NoActivePlan")
    /\ [][ (current_plan_id = None /\ current_plan_id' # None) =>
             (/\ StoreStep("create") \/ StoreStep("set_active")
              /\ lastError' = NoError) ]_vars

\* the only plan of the store, which was the active one, has just been deleted
C11_Witness ==
    /\ lastCommand = "delete"
    /\ lastError = NoError
    /\ current_plan_id = None
    /\ DOMAIN plans = {}
    /\ get_plan(plans, current_plan_id, None).err = "NoActivePlan"

\* C20: mark_post with a post_index below 0 or not below the number of posts
\* of the plan raises the invalid-index error, whatever status and notes it
\* is given, and leaves the plans and the active pointer as they were.
C20_MarkIndexOutOfRange ==
    /\ [](\A plan_id \in PlanIdArgs :
            LET id == IF Truthy(plan_id) THEN plan_id ELSE current_plan_id
            IN id \in DOMAIN plans =>
                 \A post_index \in {i \in IndexArgs \ {NoneIndex} :
                                       i < 0 \/ i >= Len(plans[id].posts)},
                    post_status \in StatusArgs, post_notes \in NotesArgs :
                     mark_post(plans, current_plan_id, plan_id, post_index,
                               post_status, post_notes)
                       = Raise(plans, current_plan_id, "IndexOutOfRange"))
    /\ [][ (StoreStep("mark_post") /\ lastError' = "IndexOutOfRange")
              => UNCHANGED storeVars ]_vars

\* a mark_post has just raised the invalid-index error on a store whose plan
\* has a marked post with notes
C20_Witness ==
    /\ lastCommand = "mark_post"
    /\ lastError = "IndexOutOfRange"
    /\ \E id \in DOMAIN plans :
          /\ plans[id].post_statuses[1] = "posted"
          /\ plans[id].post_notes[1] = "n1"

\* the plan a mark_post or a get with this plan_id argument is about
Resolved(plan_id) == IF Truthy(plan_id) THEN plan_id ELSE current_plan_id

\* what a mark_post that succeeded on post post_index of plan id has done,
\* when `given` tells which arguments count as provided: the store is as it
\* was but for the status and the notes of that post
MarkEffect(r, id, post_index, post_status, post_notes, given(_)) ==
    /\ r.cur = current_plan_id
    /\ r.plans = [plans EXCEPT
                    ![id].post_statuses[post_index + 1] =
                        IF given(post_status) THEN post_status ELSE @,
                    ![id].post_notes[post_index + 1] =
                        IF given(post_notes) THEN post_notes ELSE @]

NotNone(s) == s # None

\* C21 as stated: a mark_post that succeeds sets the status and the notes at
\* the index to whatever string it is given, the empty string included.
C21_Original ==
    \A plan_id \in PlanIdArgs :
        Resolved(plan_id) \in DOMAIN plans =>
            \A post_index \in 0..(Len(plans[Resolved(plan_id)].posts) - 1),
               post_status \in StatusArgs, post_notes \in NotesArgs :
                \A r \in {mark_post(plans, current_plan_id, plan_id, post_index,
                                    post_status, post_notes)} :
                    r.err = NoError =>
                        MarkEffect(r, Resolved(plan_id), post_index, post_status,
                                   post_notes, NotNone)

\* C21: a mark_post that succeeds sets the status at the index to the status
\* it is given and the notes at the index to the notes it is given, an empty
\* string counting as not given; it leaves the one not given as it was, and
\* changes nothing else: not the posts or the title, not the status or notes
\* at another index, not another plan, not the active pointer.
C21_MarkSetsOnlyGiven ==
    /\ [](\A plan_id \in PlanIdArgs :
            Resolved(plan_id) \in DOMAIN plans =>
                \A post_index \in 0..(Len(plans[Resolved(plan_id)].posts) - 1),
                   post_status \in StatusArgs, post_notes \in NotesArgs :
                    \A r \in {mark_post(plans, current_plan_id, plan_id, post_index,
                                        post_status, post_notes)} :
                        r.err = NoError =>
                            MarkEffect(r, Resolved(plan_id), post_index, post_status,
                                       post_notes, Truthy))
    /\ [][ (StoreStep("mark_post") /\ lastError' = NoError) =>
             /\ current_plan_id' = current_plan_id
             /\ DOMAIN plans' = DOMAIN plans
             /\ \E id \in DOMAIN plans, i \in 1..MaxPosts :
                   /\ \A o \in DOMAIN plans \ {id} : plans'[o] = plans[o]
                   /\ plans'[id].title = plans[id].title
                   /\ plans'[id].posts = plans[id].posts
                   /\ i <= Len(plans[id].posts)
                   /\ \A k \in 1..Len(plans[id].posts) :
                         k # i => /\ plans'[id].post_statuses[k] = plans[id].post_statuses[k]
                                  /\ plans'[id].post_notes[k] = plans[id].post_notes[k] ]_vars

\* a mark_post has just succeeded on a store of two plans, and the second
\* post of one plan is posted with notes while its first post and the other
\* plan are as created
C21_Witness ==
    /\ lastCommand = "mark_post"
    /\ lastError = NoError
    /\ \E id \in DOMAIN plans, o \in DOMAIN plans :
          /\ o # id
          /\ plans[id].post_statuses = <<"draft", "posted">>
          /\ plans[id].post_notes = <<"", "n1">>
          /\ \A k \in DOMAIN plans[o].post_statuses : plans[o].post_statuses[k] = "draft"

\* a mark_post on a post of the store, with a status that is given in the
\* sense of `given` and is none of the four statuses, raises the
\* invalid-status error and leaves the store as it was
InvalidStatusRaises(given(_)) ==
    \A plan_id \in PlanIdArgs :
        Resolved(plan_id) \in DOMAIN plans =>
            \A post_index \in 0..(Len(plans[Resolved(plan_id)].posts) - 1),
               post_status \in {x \in StatusArgs : given(x) /\ x \notin PostStatus},
               post_notes \in NotesArgs :
                mark_post(plans, current_plan_id, plan_id, post_index,
                          post_status, post_notes)
                  = Raise(plans, current_plan_id, "InvalidStatus")

\* every status the store holds is one of the four
StoredStatusesValid ==
    \A id \in DOMAIN plans :
        \A k \in DOMAIN plans[id].post_statuses :
            plans[id].post_statuses[k] \in PostStatus

\* C22 as stated: a mark_post whose status is given, the empty string
\* included, and is none of the four statuses raises.
C22_Original == InvalidStatusRaises(NotNone) /\ StoredStatusesValid

\* C22: a mark_post whose status is a non-empty string that is none of the
\* four statuses raises the invalid-status error and leaves the store as it
\* was; an empty status counts as not given and raises nothing; every status
\* the store holds is one of the four.
C22_InvalidStatusRejected ==
    /\ [](InvalidStatusRaises(Truthy))
    /\ [](StoredStatusesValid)
    /\ [](\A plan_id \in PlanIdArgs :
            Resolved(plan_id) \in DOMAIN plans =>
                \A post_index \in 0..(Len(plans[Resolved(plan_id)].posts) - 1),
                   post_notes \in NotesArgs :
                    \A r \in {mark_post(plans, current_plan_id, plan_id, post_index,
                                        "", post_notes)} :
                        /\ r.err = NoError
                        /\ r.plans[Resolved(plan_id)].post_statuses
                             = plans[Resolved(plan_id)].post_statuses)
    /\ [][ (StoreStep("mark_post") /\ lastError' = "InvalidStatus")
              => UNCHANGED storeVars ]_vars

\* a mark_post has just raised the invalid-status error on a store whose plan
\* has a posted first post with notes and a draft second post
C22_Witness ==
    /\ lastCommand = "mark_post"
    /\ lastError = "InvalidStatus"
    /\ \E id \in DOMAIN plans :
          /\ plans[id].post_statuses = <<"posted", "draft">>
          /\ plans[id].post_notes[1] = "n1"

\* C23: a create that succeeds stores under its plan_id a plan with the title
\* and the posts given, one draft status and one empty notes entry per post,
\* leaves every other plan as it was and makes the new plan the active one; a
\* create with an empty title or an empty list of posts raises and leaves the
\* plans and the active pointer as they were; a create with a new plan_id, a
\* title and a non-empty list succeeds.
C23_CreateInitialises ==
    /\ [](\A plan_id \in PlanIdArgs, title \in TitleArgs, posts \in PostsArgs :
               LET r == create_plan(plans, current_plan_id, plan_id, title, posts)
               IN /\ r.err = NoError =>
                       /\ DOMAIN r.plans = DOMAIN plans \cup {plan_id}
                       /\ \A o \in DOMAIN plans \ {plan_id} : r.plans[o] = plans[o]
                       /\ r.cur = plan_id
                       /\ r.plans[plan_id].title = title
                       /\ r.plans[plan_id].posts = posts.val
                       /\ Len(r.plans[plan_id].post_statuses) = Len(posts.val)
                       /\ Len(r.plans[plan_id].post_notes) = Len(posts.val)
                       /\ \A k \in 1..Len(posts.val) :
                             /\ r.plans[plan_id].post_statuses[k] = "draft"
                             /\ r.plans[plan_id].post_notes[k] = ""
                  /\ (title = "" \/ posts = PostsList(<<>>)) =>
                       /\ r.err # NoError
                       /\ r.plans = plans
                       /\ r.cur = current_plan_id
                  /\ (/\ Truthy(plan_id)
                      /\ plan_id \notin DOMAIN plans
                      /\ Truthy(title)
                      /\ posts.tag = "list"
                      /\ Len(posts.val) > 0) => r.err = NoError)
    /\ [][ (StoreStep("create") /\ lastError' = NoError) =>
             /\ current_plan_id' \in DOMAIN plans' \ DOMAIN plans
             /\ \A k \in 1..Len(plans'[current_plan_id'].posts) :
                   /\ plans'[current_plan_id'].post_statuses[k] = "draft"
                   /\ plans'[current_plan_id'].post_notes[k] = "" ]_vars
    /\ [][ (StoreStep("create") /\ lastError' \in {"MissingTitle", "InvalidPosts"})
              => UNCHANGED storeVars ]_vars

\* a create has just stored a second plan, of two posts, and made it the
\* active one, while the first plan keeps its posted post and its notes
C23_Witness ==
    /\ lastCommand = "create"
    /\ lastError = NoError
    /\ \E id \in DOMAIN plans, o \in DOMAIN plans :
          /\ o # id
          /\ current_plan_id = id
          /\ plans[id].post_statuses = <<"draft", "draft">>
          /\ plans[id].post_notes = <<"", "">>
          /\ plans[o].post_statuses[1] = "posted"
          /\ plans[o].post_notes[1] = "n1"

\* C24: get changes neither a plan nor the active pointer, whether it returns
\* or raises, and neither does list; a second get with the same plan_id, on
\* the store the first one left, gives the same rendered text, or the same
\* error, as the first.
C24_GetIsPureRead ==
    /\ [](\A plan_id \in PlanIdArgs :
            LET first == get_plan(plans, current_plan_id, plan_id)
                second == get_plan(first.plans, first.cur, plan_id)
            IN /\ first.plans = plans
               /\ first.cur = current_plan_id
               /\ second.err = first.err
               /\ get_plan_output(first.plans, first.cur, plan_id)
                    = get_plan_output(plans, current_plan_id, plan_id)
               /\ get_plan_output(second.plans, second.cur, plan_id)
                    = get_plan_output(plans, current_plan_id, plan_id))
    /\ [](LET listed == list_plans(plans, current_plan_id)
          IN listed.plans = plans /\ listed.cur = current_plan_id)
    /\ [][ (StoreStep("get") \/ StoreStep("list")) => UNCHANGED storeVars ]_vars

\* a get has just returned the rendered text of a plan of two posts, one of
\* them posted (50.0%) and with a notes line
C24_Witness ==
    /\ lastCommand = "get"
    /\ lastError = NoError
    /\ \E id \in DOMAIN plans :
          LET text == get_plan_output(plans, current_plan_id, id)
          IN /\ text.posted = 1
             /\ text.percent = 500
             /\ \E k \in DOMAIN text.posts[1] : text.posts[1][k].line = "notes"

\* the step in which the flow calls executor.run
RunInvoked == executed' # executed

\* C25: at the moment executor.run is called for a post, the store holds the
\* session's plan and the status of that post in it is ready, also when the
\* store was given commands from outside since the run before.
C25_ReadyWhenRunInvoked ==
    [][ RunInvoked =>
          /\ pc' = "run"
          /\ current_post_index' = executed'[Len(executed')]
          /\ active_plan_id \in DOMAIN plans'
          /\ current_post_index' < Len(plans'[active_plan_id].post_statuses)
          /\ plans'[active_plan_id].post_statuses[current_post_index' + 1] = "ready" ]_vars

\* executor.run stands called for the second post, which is ready, after its
\* run for the first post raised and a command from outside was given
C25_Witness ==
    /\ pc = "run"
    /\ executed = <<0, 1>>
    /\ nops = 1
    /\ HasPlan
    /\ plans[active_plan_id].post_statuses = <<"failed", "ready">>

\* the post the flow selects in a step that calls executor.run is one whose
\* status in the store was active before the step, the post whose run the
\* step ends apart, and every post below it is posted or failed after it:
\* what was marked from outside is passed over, what was reset is taken up
SelectionRescans ==
    RunInvoked =>
        /\ HasPlan
        /\ \A k \in 0..(Len(plans[active_plan_id].posts) - 1) :
              (k # current_post_index /\ StatusAt(plans[active_plan_id], k) \in Terminal)
                 => current_post_index' # k
        /\ \A k \in 0..(current_post_index' - 1) :
              StatusAt(plans'[active_plan_id], k) \in Terminal

\* the step that takes the answer of executor.run when the plan is no longer
\* in the store goes on to the finalizer, unless the executor is finished
DeletedPlanFinalizes ==
    (RunReturns /\ ~HasPlan) =>
        \/ pc' = "ask"
        \/ executor_finished' /\ pc' = "done" /\ returned' = "result"

\* C26: every selection scans the stored plan anew: a post marked posted or
\* failed from outside before it is selected is not executed, a post reset to
\* draft from outside below the current one is the next selected, and after a
\* delete from outside the next selection finds nothing and the flow goes on
\* to the finalizer.
C26_RescanObserved ==
    [][ SelectionRescans /\ DeletedPlanFinalizes ]_vars

\* the run is execute("") on a store whose plan under the session's plan_id
\* has draft posts only, or execute of a request on a store with no plan
\* under that plan_id, so that the plan the loop works on is the one the run
\* itself drafted
StartsAllDraft ==
    IF active_plan_id \in DOMAIN store_at_start.plans
    THEN /\ input_text = ""
         /\ \A k \in DOMAIN store_at_start.plans[active_plan_id].post_statuses :
               store_at_start.plans[active_plan_id].post_statuses[k] = "draft"
    ELSE input_text # ""

\* C27: throughout a run that starts from a plan of draft posts, on a store
\* nothing else touches, at most one post of the plan is ready and it is the
\* one at current_post_index; every post below current_post_index is posted
\* or failed and every post above it is draft; while current_post_index is
\* unset the posts are all draft (before the first selection) or all posted
\* or failed (after the last).
C27_ReadyFrontier ==
    (StartsAllDraft /\ HasPlan) =>
        LET statuses == plans[active_plan_id].post_statuses
            n == Len(plans[active_plan_id].posts)
        IN /\ Len(statuses) = n
           /\ Cardinality({k \in 1..n : statuses[k] = "ready"}) <= 1
           /\ \A k \in 1..n : statuses[k] = "ready" => current_post_index = k - 1
           /\ IF current_post_index = NoneIndex
              THEN \/ \A k \in 1..n : statuses[k] = "draft"
                   \/ \A k \in 1..n : statuses[k] \in Terminal
              ELSE /\ current_post_index < n
                   /\ statuses[current_post_index + 1] \in {"ready"} \cup Terminal
                   /\ \A k \in 1..current_post_index : statuses[k] \in Terminal
                   /\ \A k \in (current_post_index + 2)..n : statuses[k] = "draft"

\* executor.run stands called for the first of two posts, which is ready
\* while the second is draft, in a run that started from two draft posts
C27_Witness ==
    /\ StartsAllDraft
    /\ HasPlan
    /\ pc = "run"
    /\ current_post_index = 0
    /\ plans[active_plan_id].post_statuses = <<"ready", "draft">>

\* a step of the loop of execute: from the call of execute("") to the first
\* executor.run, or from the answer of one executor.run to the next await
LoopStep == (pc = "start" /\ input_text = "") \/ RunReturns

\* C28: a step of the loop, which ends the iteration on the post at
\* current_post_index and begins the one on the post it selects next, changes
\* in the store only the status and the notes of the first and the status of
\* the second: the title and the posts of the plan, the status and notes that
\* stand at every other index, every other plan and the active pointer stay
\* as they were; no status that was not draft becomes draft, and a status the
\* step adds at another index, to make the list long enough, is draft.
C28_IterationFrame ==
    [][ LoopStep =>
          /\ current_plan_id' = current_plan_id
          /\ DOMAIN plans' = DOMAIN plans
          /\ \A o \in DOMAIN plans \ {active_plan_id} : plans'[o] = plans[o]
          /\ HasPlan =>
                LET old == plans[active_plan_id]
                    new == plans'[active_plan_id]
                IN /\ new.plan_id = old.plan_id
                   /\ new.title = old.title
                   /\ new.posts = old.posts
                   /\ Len(new.post_statuses) >= Len(old.post_statuses)
                   /\ Len(new.post_notes) >= Len(old.post_notes)
                   /\ \A k \in 1..Len(old.post_statuses) :
                         /\ (k - 1 # current_post_index /\ k - 1 # current_post_index')
                               => new.post_statuses[k] = old.post_statuses[k]
                         /\ new.post_statuses[k] = "draft" => old.post_statuses[k] = "draft"
                   /\ \A k \in (Len(old.post_statuses) + 1)..Len(new.post_statuses) :
                         (k - 1 # current_post_index /\ k - 1 # current_post_index')
                            => new.post_statuses[k] = "draft"
                   /\ \A k \in 1..Len(new.post_notes) :
                         k - 1 # current_post_index
                            => /\ k <= Len(old.post_notes)
                               /\ new.post_notes[k] = old.post_notes[k] ]_vars

\* the run of the second post has returned and the post is posted, while the
\* first post keeps its failed status and the notes of its error
C28_Witness ==
    /\ pc = "ask"
    /\ executed = <<0, 1>>
    /\ HasPlan
    /\ plans[active_plan_id].post_statuses = <<"failed", "posted">>
    /\ plans[active_plan_id].post_notes = <<ErrorNote, "">>

\* the posts executor.run was called for by both runs
ExecutedByBoth == Range(executed) \cap Range(other_run.executed)

\* a status of the session's plan that is posted or failed changes
TerminalOverwritten ==
    /\ HasPlan
    /\ \E k \in 1..Len(plans[active_plan_id].post_statuses) :
          /\ plans[active_plan_id].post_statuses[k] \in Terminal
          /\ plans'[active_plan_id].post_statuses[k] # plans[active_plan_id].post_statuses[k]

\* C29 as stated: of two interleaved runs on one plan, at most one executes a
\* given post, and a posted or failed status is never written over.
C29_Original ==
    /\ [](ExecutedByBoth = {})
    /\ [][ ~TerminalOverwritten ]_vars

\* a list without repetitions
NoRepeats(seq) == \A i, j \in 1..Len(seq) : i # j => seq[i] # seq[j]

\* C29: of two interleaved runs on one plan, each run calls executor.run at
\* most once for a post, and only for a post whose status in the store was
\* draft or ready when the run selected it (the post whose run it just ended
\* apart); a status that is posted or failed is never set back to draft or
\* ready, so that a post is no longer selected once one run has ended its
\* run of it.  Both runs may execute the same post, and one run may write
\* posted or failed over the failed or posted of the other.
C29_TwoRunsShareItems ==
    /\ [](NoRepeats(executed) /\ NoRepeats(other_run.executed))
    /\ [][ (RunInvoked /\ other_run' = other_run) =>
             /\ HasPlan
             /\ current_post_index' # current_post_index
             /\ StatusAt(plans[active_plan_id], current_post_index') \in ActiveStatuses ]_vars
    /\ [][ HasPlan =>
             \A k \in 1..Len(plans[active_plan_id].post_statuses) :
                plans[active_plan_id].post_statuses[k] \in Terminal
                   => /\ HasPlan'
                      /\ plans'[active_plan_id].post_statuses[k] \in Terminal ]_vars

\* both runs have called executor.run for the first post; the run being
\* executed got its answer and marked the post posted, and the post now is
\* failed: the other run wrote over the status
C29_Witness ==
    /\ 0 \in ExecutedByBoth
    /\ \E i \in 1..Len(result) : result[i] = Part("post_result", 0)
    /\ HasPlan
    /\ plans[active_plan_id].post_statuses[1] = "failed"

====
